---- MODULE Spec2Model ----
(***************************************************************************)
(* A model of the PayHere client SDK (src/src/main.ts): the token cache of *)
(* a PayHere instance, the three asynchronous operations getAccessToken,   *)
(* getPaymentDetails and refundPayment, cut at their suspension points     *)
(* (the awaits), and the two pure functions generatePaymentHash and        *)
(* verifyPaymentSignature.                                                 *)
(*                                                                         *)
(* JavaScript strings that the code inspects or concatenates are sequences *)
(* of one-character strings (<<"M","1">> is "M1", <<>> is "").  Opaque     *)
(* strings (tokens, message texts) are TLA+ strings.                       *)
(***************************************************************************)
EXTENDS Integers, Sequences, FiniteSets, TLC

VARIABLES
    merchant_id,            \* PayHere.merchant_id      (public field)
    merchant_secret,        \* PayHere.merchant_secret  (public field)
    app_id,                 \* PayHere.app_id           (public field)
    app_secret,             \* PayHere.app_secret       (public field)
    authorizationCode,      \* PayHere._authorizationCode
    accessToken,            \* PayHere._accessToken
    accessTokenExpiresAt,   \* PayHere._accessTokenExpiresAt
    now,                    \* Date.now(), in milliseconds
    call,                   \* the asynchronous calls in progress, per caller
    last                    \* the last call of a pure function and its outcome

vars == <<merchant_id, merchant_secret, app_id, app_secret, authorizationCode,
          accessToken, accessTokenExpiresAt, now, call, last>>

clientVars == <<merchant_id, merchant_secret, app_id, app_secret,
                authorizationCode, accessToken, accessTokenExpiresAt>>

(***************************************************************************)
(* Bounds of the model.                                                    *)
(***************************************************************************)
MaxNow == 1000          \* the clock stops advancing here (milliseconds)
TickMs == 500           \* one step of the clock (milliseconds)
MaxExpiresIn == 1       \* largest expires_in a token response carries (s)

Callers == {"a", "b"}   \* logical callers sharing the one client instance
Tokens == {"T1", "T2"}  \* access_token values the gateway hands out

(***************************************************************************)
(* JavaScript values.                                                      *)
(***************************************************************************)
\* The value undefined, where the code expects a string.
Undefined == "<undefined>"

\* The empty string "" as a sequence of characters.
EmptyStr == <<>>

\* !s for a string held as a sequence of characters.
Falsy(s) == s = EmptyStr

\* Truthiness of a value that is undefined or an opaque string.
Truthy(v) == v # Undefined /\ v # ""

\* A JavaScript number: NaN, +/-Infinity, or the finite decimal m / 10^k.
NaN == [kind |-> "nan", m |-> 0, k |-> 0]
Infinity == [kind |-> "inf", m |-> 1, k |-> 0]
NegInfinity == [kind |-> "inf", m |-> -1, k |-> 0]

RECURSIVE Normal(_, _)
Normal(m, k) ==
    IF k > 0 /\ m % 10 = 0 THEN Normal(m \div 10, k - 1)
    ELSE [kind |-> "fin", m |-> m, k |-> k]

Fin(m, k) == Normal(m, k)
Num(n) == Fin(n, 0)

RECURSIVE Pow10(_)
Pow10(k) == IF k = 0 THEN 1 ELSE 10 * Pow10(k - 1)

\* a < b on numbers: false when either side is NaN.
JsLt(a, b) ==
    IF a.kind = "nan" \/ b.kind = "nan" THEN FALSE
    ELSE IF a.kind = "inf" THEN a.m < 0 /\ b # a
    ELSE IF b.kind = "inf" THEN b.m > 0
    ELSE LET s == IF a.k > b.k THEN a.k ELSE b.k
         IN  a.m * Pow10(s - a.k) < b.m * Pow10(s - b.k)

\* a <= b on numbers: false when either side is NaN.
JsLe(a, b) ==
    IF a.kind = "nan" \/ b.kind = "nan" THEN FALSE ELSE a = b \/ JsLt(a, b)

\* a + b, with b finite or NaN and a a finite integer (Date.now()).
JsAdd(a, b) ==
    IF a.kind = "nan" \/ b.kind = "nan" THEN NaN
    ELSE IF b.kind = "inf" THEN b
    ELSE Fin(a.m * Pow10(b.k) + b.m, b.k)

\* a * n for an integer n > 0.
JsMul(a, n) ==
    IF a.kind = "nan" THEN NaN
    ELSE IF a.kind = "inf" THEN a
    ELSE Fin(a.m * n, a.k)

(***************************************************************************)
(* JSON bodies: an object is a record over a subset of the keys the code   *)
(* reads; JNull stands for a body that parses to a non-object (null).      *)
(***************************************************************************)
JNull == [null |-> TRUE]

IsObject(data) == data # JNull

\* k in data
In(k, data) == k \in DOMAIN data

\* data.k where the code expects a string: undefined when the key is absent.
GetStr(data, k) == IF In(k, data) THEN data[k] ELSE Undefined

\* data.k * 1000 style reads: ToNumber(undefined) is NaN.
GetNum(data, k) == IF In(k, data) THEN Num(data[k]) ELSE NaN

(***************************************************************************)
(* Errors.  A message is a sequence of text pieces; + is \o.               *)
(***************************************************************************)
\* new Error(message).message: undefined leaves the default, "".
ErrorMessage(v) == IF v = Undefined THEN <<>> ELSE <<v>>

PayHereError(message) == [name |-> "PayHereError", message |-> message]

TypeError(message) == [name |-> "TypeError", message |-> <<message>>]

\* What fetch rejects with: a network failure or the AbortSignal's timeout.
FetchErrors ==
    { [name |-> "TypeError", message |-> <<"fetch failed">>],
      [name |-> "TimeoutError", message |-> <<"The operation was aborted due to timeout">>] }

\* What res.json() rejects with on a body that is not JSON.
JsonError == [name |-> "SyntaxError", message |-> <<"Unexpected token in JSON">>]

(***************************************************************************)
(* The client: credentials and the token cache.                            *)
(***************************************************************************)
\* Values a credential field is constructed with or assigned: "" or a value.
MerchantIds == {EmptyStr, <<"M", "1">>}
MerchantSecrets == {EmptyStr, <<"S", "1">>}
AppIds == {EmptyStr, <<"A", "1">>}
AppSecrets == {EmptyStr, <<"P", "1">>}

\* needMerchantCredentials(): TRUE when it returns, FALSE when it throws.
needMerchantCredentials(mid, msec) == ~(Falsy(mid) \/ Falsy(msec))

MerchantCredentialsError ==
    PayHereError(<<"PAYHERE_MERCHANT_ID and PAYHERE_SECRET must be set">>)

\* needAppCredentials() with the test of app_secret left out.
needAppCredentialsIdOnly(aid, asec) == ~Falsy(aid)

\* needAppCredentials(): TRUE when it returns, FALSE when it throws.
needAppCredentials(aid, asec) == ~(Falsy(aid) \/ Falsy(asec))

AppCredentialsError ==
    PayHereError(<<"PAYHERE_APP_ID and PAYHERE_APP_SECRET must be set">>)

\* Buffer.from(s).toString("base64"): one block standing for the encoding.
RECURSIVE Join(_)
Join(s) == IF s = <<>> THEN "" ELSE Head(s) \o Join(Tail(s))

Base64(s) == <<"base64(" \o Join(s) \o ")">>

\* The getter genBase64Encode, past its needAppCredentials(): the value of
\* _authorizationCode it leaves and returns.
genBase64Encode(code, aid, asec) ==
    IF ~Falsy(code) THEN code ELSE Base64(aid \o <<":">> \o asec)

\* The test of line 153 with the comparison against the expiry left out.
CacheValidIgnoresExpiry(tok, exp, t) == Truthy(tok)

\* The test of line 153 made to pass also while another call's token request
\* is outstanding, so that at most one acquisition is in flight.
CacheValidOrAcquiring(tok, exp, t) ==
    \/ Truthy(tok) /\ JsLt(Num(t), exp)
    \/ \E c \in Callers : call[c].pc = "awaitToken"

\* The test of line 153: the cache holds a token and it has not expired.
CacheValid(tok, exp, t) == Truthy(tok) /\ JsLt(Num(t), exp)

MsPerSecond == 1000

\* Line 177 with the conversion of seconds to milliseconds left out.
ExpiresAtUnscaled(t, expires_in) == JsAdd(Num(t), expires_in)

\* Line 177: Date.now() + token.expires_in * 1000.
ExpiresAt(t, expires_in) == JsAdd(Num(t), JsMul(expires_in, MsPerSecond))

(***************************************************************************)
(* Requests, as fetch is given them.                                       *)
(***************************************************************************)
TokenRequest(code) ==
    [endpoint |-> "oauth/token", method |-> "POST",
     authorization |-> <<"Basic">> \o code,
     body |-> "grant_type=client_credentials"]

SearchRequest(token, order_id) ==
    [endpoint |-> "payment/search", method |-> "GET",
     authorization |-> <<"Bearer", token>>, order_id |-> order_id]

RefundRequest(token, body) ==
    [endpoint |-> "payment/refund", method |-> "POST",
     authorization |-> <<"Bearer", token>>, body |-> body]

(***************************************************************************)
(* What the gateway and the network may answer.                            *)
(***************************************************************************)
\* Bodies of the token endpoint: well-formed, and with a field missing or "".
TokenBodies ==
    { [access_token |-> t, token_type |-> "bearer", expires_in |-> n] :
          t \in Tokens \cup {""}, n \in 0..MaxExpiresIn }
    \cup { [access_token |-> t, token_type |-> "bearer"] : t \in Tokens }
    \cup { [token_type |-> "bearer", expires_in |-> MaxExpiresIn],
           [token_type |-> "bearer"] }

\* The two documented failure shapes, a body of neither shape, and null.
GatewayError == [status |-> -1, msg |-> "No payments found"]
OAuthError == [error |-> "invalid_token", error_description |-> "Access token expired"]
OtherBody == [message |-> "Internal Server Error"]
ErrorBodies == {GatewayError, OAuthError, OtherBody, JNull}

\* A body of the payment endpoints on success.
SuccessBody == [status |-> 1, msg |-> "Success", data |-> 1]

Rejected(e) == [fetch |-> "rejected", error |-> e]
Resolved(ok, parsed, data) ==
    [fetch |-> "resolved", ok |-> ok, parsed |-> parsed, data |-> data]

\* A reply: fetch rejects; or resolves with res.ok and a body that res.json()
\* parses to data, or fails to parse.
Replies(bodies) ==
    { Rejected(e) : e \in FetchErrors }
    \cup { Resolved(ok, FALSE, JNull) : ok \in BOOLEAN }
    \cup { Resolved(ok, TRUE, d) : ok \in BOOLEAN, d \in bodies }

TokenReplies == Replies(TokenBodies \cup ErrorBodies)
PaymentReplies == Replies({SuccessBody} \cup ErrorBodies)

(***************************************************************************)
(* Outcomes of a call.                                                     *)
(***************************************************************************)
NoOutcome == [kind |-> "none"]
Throw(e) == [kind |-> "throw", error |-> e]
ReturnToken(v) == [kind |-> "return", token |-> v]
ReturnData(d) == [kind |-> "return", data |-> d]

\* The error a try block ends with: what fetch or res.json() rejected with,
\* the TypeError of a property read or an `in` on null, or none.
ReplyFailure(reply) ==
    IF reply.fetch = "rejected" THEN <<reply.error>>
    ELSE IF ~reply.parsed THEN <<JsonError>>
    ELSE <<>>

\* getAccessToken resumed, with the two assignments of lines 176-177 made
\* before the test of res.ok instead of after it.
getAccessTokenResumeStoresFirst(reply, tok, exp, t) ==
    LET failure == ReplyFailure(reply)
        data == reply.data
        caught(e, tok2, exp2) ==
            [outcome |-> Throw(PayHereError(<<"Failed to fetch access token: ">> \o e.message)),
             accessToken |-> tok2, accessTokenExpiresAt |-> exp2]
        stored == GetStr(data, "access_token")
        storedExp == ExpiresAt(t, GetNum(data, "expires_in"))
    IN  IF failure # <<>> THEN caught(failure[1], tok, exp)
        ELSE IF ~IsObject(data)
             THEN caught(TypeError("Cannot read properties of null"), tok, exp)
        ELSE IF ~reply.ok
             THEN caught(PayHereError(ErrorMessage(GetStr(data, "error_description"))),
                         stored, storedExp)
        ELSE [outcome |-> ReturnToken(stored),
              accessToken |-> stored, accessTokenExpiresAt |-> storedExp]

\* getAccessToken resumed, with the assignment of line 177 left out: the new
\* token is stored beside the expiry that was there.
getAccessTokenResumeTokenOnly(reply, tok, exp, t) ==
    LET caught(e) ==
            [outcome |-> Throw(PayHereError(<<"Failed to fetch access token: ">> \o e.message)),
             accessToken |-> tok, accessTokenExpiresAt |-> exp]
        failure == ReplyFailure(reply)
        data == reply.data
    IN  IF failure # <<>> THEN caught(failure[1])
        ELSE IF ~IsObject(data)
             THEN caught(TypeError("Cannot read properties of null"))
        ELSE IF ~reply.ok
             THEN caught(PayHereError(ErrorMessage(GetStr(data, "error_description"))))
        ELSE [outcome |-> ReturnToken(GetStr(data, "access_token")),
              accessToken |-> GetStr(data, "access_token"),
              accessTokenExpiresAt |-> exp]

\* getAccessToken, lines 168-182, resumed with the reply at time t: the
\* outcome and the cache it leaves.
getAccessTokenResume(reply, tok, exp, t) ==
    LET caught(e) ==
            [outcome |-> Throw(PayHereError(<<"Failed to fetch access token: ">> \o e.message)),
             accessToken |-> tok, accessTokenExpiresAt |-> exp]
        failure == ReplyFailure(reply)
        data == reply.data
    IN  IF failure # <<>> THEN caught(failure[1])
        ELSE IF ~IsObject(data)
             THEN caught(TypeError("Cannot read properties of null"))
        ELSE IF ~reply.ok
             THEN caught(PayHereError(ErrorMessage(GetStr(data, "error_description"))))
        ELSE [outcome |-> ReturnToken(GetStr(data, "access_token")),
              accessToken |-> GetStr(data, "access_token"),
              accessTokenExpiresAt |-> ExpiresAt(t, GetNum(data, "expires_in"))]

\* The text each operation's catch block puts before the cause's message.
CatchPrefix(op) ==
    IF op = "getPaymentDetails"
    THEN "Failed to fetch payment details. Please check if the order ID is correct or you have enabled payment retrieval on your PayHere account.\nError: "
    ELSE "Refund failed. Please check if refunds are enabled on your PayHere account.\nError: "

\* Lines 213-221 with error_description read for both shapes, as line 172
\* does.
NotOkThrowsDescription(data) ==
    IF ~IsObject(data) THEN <<TypeError("Cannot use 'in' operator to search for 'status' in null")>>
    ELSE IF In("status", data) \/ In("error", data)
         THEN <<PayHereError(ErrorMessage(GetStr(data, "error_description")))>>
    ELSE <<>>

\* Lines 213-221 and 276-283: what the test of a non-success body throws,
\* if anything.
NotOkThrows(data) ==
    IF ~IsObject(data) THEN <<TypeError("Cannot use 'in' operator to search for 'status' in null")>>
    ELSE IF In("status", data) THEN <<PayHereError(ErrorMessage(GetStr(data, "msg")))>>
    ELSE IF In("error", data) THEN <<PayHereError(ErrorMessage(GetStr(data, "error_description")))>>
    ELSE <<>>

\* Lines 199-229 without the try/catch: what fetch or res.json() rejects
\* with reaches the caller as it is.
paymentResumeUncaught(op, reply) ==
    LET failure == ReplyFailure(reply)
        thrown == IF reply.ok THEN <<>> ELSE NotOkThrows(reply.data)
    IN  IF failure # <<>> THEN Throw(failure[1])
        ELSE IF thrown # <<>> THEN Throw(thrown[1])
        ELSE ReturnData(reply.data)

\* getPaymentDetails, lines 211-229, and refundPayment, lines 274-290,
\* resumed with the reply: the outcome.
paymentResume(op, reply) ==
    LET caught(e) == Throw(PayHereError(<<CatchPrefix(op)>> \o e.message))
        failure == ReplyFailure(reply)
        thrown == IF reply.ok THEN <<>> ELSE NotOkThrows(reply.data)
    IN  IF failure # <<>> THEN caught(failure[1])
        ELSE IF thrown # <<>> THEN caught(thrown[1])
        ELSE ReturnData(reply.data)

(***************************************************************************)
(* Calls.  A caller's record: the operation, where it stands, its          *)
(* arguments, the local `token`, the requests it has issued so far (the    *)
(* last one is outstanding while it awaits), and its outcome.              *)
(*   pc: "idle"          no call made yet                                  *)
(*       "awaitToken"    suspended at the awaits of lines 158/168          *)
(*       "haveToken"     getAccessToken has resolved; the caller's await   *)
(*                       (line 197 or 252) has not resumed yet             *)
(*       "awaitPayment"  suspended at the awaits of lines 200/211, 264/274 *)
(*       "done"          the call's promise has settled                    *)
(***************************************************************************)
NoCall ==
    [op |-> "none", pc |-> "idle", args |-> [none |-> TRUE], token |-> Undefined,
     sent |-> <<>>, outcome |-> NoOutcome]

NewCall(op, args) ==
    [op |-> op, pc |-> "idle", args |-> args, token |-> Undefined,
     sent |-> <<>>, outcome |-> NoOutcome]

Settle(rec, outcome) ==
    [rec EXCEPT !.pc = "done", !.token = Undefined, !.outcome = outcome]

CanCall(c) == call[c].pc \in {"idle", "done"}

\* Arguments the callers pass.
OrderIds == {<<"O", "1">>}
PaymentIds == {3200}
Reasons == {"Customer requested refund"}
RefundTypes == {"full", "partial"}
Amounts == {NaN, Infinity, Num(-1), Num(0), Fin(125, 3), Num(500)}

\* getAccessToken, lines 150-166, run by caller c whose record is rec: up to
\* its first suspension, its return from the cache, or its throw.  `nested`
\* is TRUE when getPaymentDetails or refundPayment is the one awaiting it.
getAccessTokenEnter(c, rec) ==
    IF ~needAppCredentials(app_id, app_secret)
    THEN /\ call' = [call EXCEPT ![c] = Settle(rec, Throw(AppCredentialsError))]
         /\ UNCHANGED authorizationCode
    ELSE IF CacheValid(accessToken, accessTokenExpiresAt, now)
    THEN /\ call' = [call EXCEPT ![c] =
                IF rec.op = "getAccessToken"
                THEN Settle(rec, ReturnToken(accessToken))
                ELSE [rec EXCEPT !.pc = "haveToken", !.token = accessToken]]
         /\ UNCHANGED authorizationCode
    ELSE /\ authorizationCode' = genBase64Encode(authorizationCode, app_id, app_secret)
         /\ call' = [call EXCEPT ![c] =
                [rec EXCEPT !.pc = "awaitToken",
                            !.sent = Append(@, TokenRequest(authorizationCode'))]]

\* A caller calls getAccessToken().
CallGetAccessToken(c) ==
    /\ CanCall(c)
    /\ getAccessTokenEnter(c, NewCall("getAccessToken", [none |-> TRUE]))
    /\ UNCHANGED <<merchant_id, merchant_secret, app_id, app_secret,
                   accessToken, accessTokenExpiresAt, now, last>>

\* A caller calls getPaymentDetails(order_id): lines 194-197.
CallGetPaymentDetails(c, order_id) ==
    /\ CanCall(c)
    /\ LET rec == NewCall("getPaymentDetails", [order_id |-> order_id])
       IN  IF ~needMerchantCredentials(merchant_id, merchant_secret)
           THEN /\ call' = [call EXCEPT ![c] = Settle(rec, Throw(MerchantCredentialsError))]
                /\ UNCHANGED authorizationCode
           ELSE getAccessTokenEnter(c, rec)
    /\ UNCHANGED <<merchant_id, merchant_secret, app_id, app_secret,
                   accessToken, accessTokenExpiresAt, now, last>>

\* A caller calls refundPayment(payment_id, reason, amount, refund_type):
\* lines 244-252.
CallRefundPayment(c, payment_id, reason, amount, refund_type) ==
    /\ CanCall(c)
    /\ LET rec == NewCall("refundPayment",
                          [payment_id |-> payment_id, reason |-> reason,
                           amount |-> amount, refund_type |-> refund_type])
       IN  IF ~needMerchantCredentials(merchant_id, merchant_secret)
           THEN /\ call' = [call EXCEPT ![c] = Settle(rec, Throw(MerchantCredentialsError))]
                /\ UNCHANGED authorizationCode
           ELSE getAccessTokenEnter(c, rec)
    /\ UNCHANGED <<merchant_id, merchant_secret, app_id, app_secret,
                   accessToken, accessTokenExpiresAt, now, last>>

\* The token request of caller c is answered: lines 168-182, and the
\* settling of getAccessToken's promise.
TokenReply(c, reply) ==
    /\ call[c].pc = "awaitToken"
    /\ LET r == getAccessTokenResume(reply, accessToken, accessTokenExpiresAt, now)
       IN  /\ accessToken' = r.accessToken
           /\ accessTokenExpiresAt' = r.accessTokenExpiresAt
           /\ call' = [call EXCEPT ![c] =
                  IF call[c].op = "getAccessToken" \/ r.outcome.kind = "throw"
                  THEN Settle(@, r.outcome)
                  ELSE [@ EXCEPT !.pc = "haveToken", !.token = r.outcome.token]]
    /\ UNCHANGED <<merchant_id, merchant_secret, app_id, app_secret,
                   authorizationCode, now, last>>

(***************************************************************************)
(* Number.prototype.toFixed(2).                                            *)
(***************************************************************************)
Digits == <<"0", "1", "2", "3", "4", "5", "6", "7", "8", "9">>

\* The decimal digits of an integer n >= 0.
RECURSIVE IntToStr(_)
IntToStr(n) ==
    IF n < 10 THEN <<Digits[n + 1]>>
    ELSE IntToStr(n \div 10) \o <<Digits[(n % 10) + 1]>>

RECURSIVE Pow5(_)
Pow5(k) == IF k = 0 THEN 1 ELSE 5 * Pow5(k - 1)

\* The integer n for which n / 100 - a / 10^k is as close to zero as possible
\* (a >= 0), the larger n on a tie.  A tie is decided on the double nearest to
\* a / 10^k: when a / 10^k is a binary fraction (5^k divides a) the double is
\* exact and the tie is real; otherwise the double lies on one side, which
\* this model does not compute: -1 marks that case.
RoundHundredths(a, k) ==
    IF k <= 2 THEN a * Pow10(2 - k)
    ELSE LET q == Pow10(k - 2)
             lo == a \div q
             r == a % q
         IN  IF 2 * r < q THEN lo
             ELSE IF 2 * r > q THEN lo + 1
             ELSE IF a % Pow5(k) = 0 THEN lo + 1
             ELSE -1

\* x.toFixed(2), for |x| < 10^21.
ToFixed2(x) ==
    IF x.kind = "nan" THEN <<"N", "a", "N">>
    ELSE IF x.kind = "inf"
         THEN (IF x.m < 0 THEN <<"-">> ELSE <<>>)
              \o <<"I", "n", "f", "i", "n", "i", "t", "y">>
    ELSE LET a == IF x.m < 0 THEN -x.m ELSE x.m
             n == RoundHundredths(a, x.k)
         IN  IF n < 0 THEN <<"?">>
             ELSE (IF x.m < 0 THEN <<"-">> ELSE <<>>)
                  \o IntToStr(n \div 100)
                  \o <<".", Digits[((n % 100) \div 10) + 1], Digits[(n % 10) + 1]>>

\* refundPayment, lines 254-261: the body, or what the check throws.
InvalidRefundAmount ==
    PayHereError(<<"Amount for partial refund must be greater than zero">>)

RefundRejected(amount, refund_type) ==
    refund_type = "partial" /\ JsLe(amount, Num(0))

RefundBodyOf(payment_id, reason, amount, refund_type) ==
    IF refund_type = "partial"
    THEN [payment_id |-> payment_id, reason |-> reason, amount |-> ToFixed2(amount)]
    ELSE [payment_id |-> payment_id, reason |-> reason]

\* The await of getAccessToken() resumes in getPaymentDetails (lines 197-209)
\* or refundPayment (lines 252-272): the request is issued, or refundPayment
\* throws on the amount.
Resume(c) ==
    /\ call[c].pc = "haveToken"
    /\ LET rec == call[c]
           a == rec.args
       IN  call' = [call EXCEPT ![c] =
               IF rec.op = "getPaymentDetails"
               THEN [rec EXCEPT !.pc = "awaitPayment",
                                !.sent = Append(@, SearchRequest(rec.token, a.order_id))]
               ELSE IF RefundRejected(a.amount, a.refund_type)
               THEN Settle(rec, Throw(InvalidRefundAmount))
               ELSE [rec EXCEPT !.pc = "awaitPayment",
                                !.sent = Append(@, RefundRequest(rec.token,
                                    RefundBodyOf(a.payment_id, a.reason, a.amount, a.refund_type)))]]
    /\ UNCHANGED <<clientVars, now, last>>

\* The payment request of caller c is answered: lines 211-229, 274-290.
PaymentReply(c, reply) ==
    /\ call[c].pc = "awaitPayment"
    /\ call' = [call EXCEPT ![c] = Settle(@, paymentResume(call[c].op, reply))]
    /\ UNCHANGED <<clientVars, now, last>>

\* Time passes.
Tick ==
    /\ now + TickMs <= MaxNow
    /\ now' = now + TickMs
    /\ UNCHANGED <<clientVars, call, last>>

\* The application assigns one of the public credential fields.
AssignMerchantId(v) ==
    /\ merchant_id' = v /\ v # merchant_id
    /\ UNCHANGED <<merchant_secret, app_id, app_secret, authorizationCode,
                   accessToken, accessTokenExpiresAt, now, call, last>>

AssignMerchantSecret(v) ==
    /\ merchant_secret' = v /\ v # merchant_secret
    /\ UNCHANGED <<merchant_id, app_id, app_secret, authorizationCode,
                   accessToken, accessTokenExpiresAt, now, call, last>>

AssignAppId(v) ==
    /\ app_id' = v /\ v # app_id
    /\ UNCHANGED <<merchant_id, merchant_secret, app_secret, authorizationCode,
                   accessToken, accessTokenExpiresAt, now, call, last>>

AssignAppSecret(v) ==
    /\ app_secret' = v /\ v # app_secret
    /\ UNCHANGED <<merchant_id, merchant_secret, app_id, authorizationCode,
                   accessToken, accessTokenExpiresAt, now, call, last>>

NoPureCall == [fn |-> "none"]

\* new PayHere(merchant_id, merchant_secret, app_id, app_secret): lines 95-106.
Init ==
    /\ merchant_id \in MerchantIds
    /\ merchant_secret \in MerchantSecrets
    /\ app_id \in AppIds
    /\ app_secret \in AppSecrets
    /\ authorizationCode = EmptyStr
    /\ accessToken = ""
    /\ accessTokenExpiresAt = Num(0)
    /\ now = 0
    /\ call = [c \in Callers |-> NoCall]
    /\ last = NoPureCall

(***************************************************************************)
(* Spec: the instance used sequentially, by one caller that starts a call  *)
(* only when its previous one has settled, with every argument, reply and  *)
(* credential assignment of the sets above.                                *)
(***************************************************************************)
Sequential == {"a"}

Next ==
    \/ \E c \in Sequential : CallGetAccessToken(c)
    \/ \E c \in Sequential, o \in OrderIds : CallGetPaymentDetails(c, o)
    \/ \E c \in Sequential, p \in PaymentIds, r \in Reasons, a \in Amounts, t \in RefundTypes :
           CallRefundPayment(c, p, r, a, t)
    \/ \E c \in Sequential, reply \in TokenReplies : TokenReply(c, reply)
    \/ \E c \in Sequential : Resume(c)
    \/ \E c \in Sequential, reply \in PaymentReplies : PaymentReply(c, reply)
    \/ Tick
    \/ \E v \in MerchantIds : AssignMerchantId(v)
    \/ \E v \in MerchantSecrets : AssignMerchantSecret(v)
    \/ \E v \in AppIds : AssignAppId(v)
    \/ \E v \in AppSecrets : AssignAppSecret(v)

Spec == Init /\ [][Next]_vars

(***************************************************************************)
(* SpecConcurrent: two callers whose calls interleave at the awaits, on an *)
(* instance constructed with all four credentials.                         *)
(***************************************************************************)
InitConcurrent ==
    /\ Init
    /\ needMerchantCredentials(merchant_id, merchant_secret)
    /\ needAppCredentials(app_id, app_secret)

ConcurrentAmounts == {Num(0), Num(500)}

Timeout == CHOOSE e \in FetchErrors : e.name = "TimeoutError"

ConcurrentTokenReplies ==
    { Rejected(Timeout), Resolved(FALSE, TRUE, OAuthError) }
    \cup { Resolved(TRUE, TRUE, d) : d \in TokenBodies }

ConcurrentPaymentReplies ==
    { Rejected(Timeout), Resolved(TRUE, TRUE, SuccessBody),
      Resolved(FALSE, TRUE, GatewayError), Resolved(FALSE, TRUE, OtherBody) }

NextConcurrent ==
    \/ \E c \in Callers : CallGetAccessToken(c)
    \/ \E c \in Callers, o \in OrderIds : CallGetPaymentDetails(c, o)
    \/ \E c \in Callers, p \in PaymentIds, r \in Reasons, a \in ConcurrentAmounts :
           CallRefundPayment(c, p, r, a, "partial")
    \/ \E c \in Callers, reply \in ConcurrentTokenReplies : TokenReply(c, reply)
    \/ \E c \in Callers : Resume(c)
    \/ \E c \in Callers, reply \in ConcurrentPaymentReplies : PaymentReply(c, reply)
    \/ Tick

SpecConcurrent == InitConcurrent /\ [][NextConcurrent]_vars

(***************************************************************************)
(* Number(s) for a string s: StringToNumber, for strings made of digits,   *)
(* ".", a leading sign, the literal Infinity, and letters (which make the  *)
(* string no numeric literal).  Exponents, radix prefixes and white space  *)
(* are not among the characters of the model's inputs.                     *)
(***************************************************************************)
IsDigit(ch) == \E d \in 1..10 : Digits[d] = ch

DigitVal(ch) == (CHOOSE d \in 1..10 : Digits[d] = ch) - 1

AllDigits(s) == \A i \in 1..Len(s) : IsDigit(s[i])

\* The value of a sequence of digits ("" is 0).
RECURSIVE DigitsVal(_)
DigitsVal(s) ==
    IF s = <<>> THEN 0
    ELSE 10 * DigitsVal(SubSeq(s, 1, Len(s) - 1)) + DigitVal(s[Len(s)])

\* An unsigned StrDecimalLiteral: digits, digits "." digits?, or "." digits.
UnsignedToNumber(u) ==
    LET dots == {i \in 1..Len(u) : u[i] = "."}
    IN  IF u = <<"I", "n", "f", "i", "n", "i", "t", "y">> THEN Infinity
        ELSE IF dots = {} THEN (IF u # <<>> /\ AllDigits(u) THEN Fin(DigitsVal(u), 0) ELSE NaN)
        ELSE IF Cardinality(dots) > 1 THEN NaN
        ELSE LET i == CHOOSE j \in dots : TRUE
                 ip == SubSeq(u, 1, i - 1)
                 fp == SubSeq(u, i + 1, Len(u))
             IN  IF AllDigits(ip) /\ AllDigits(fp) /\ ip \o fp # <<>>
                 THEN Fin(DigitsVal(ip \o fp), Len(fp))
                 ELSE NaN

Negate(x) == IF x.kind = "nan" THEN x ELSE [x EXCEPT !.m = -x.m]

ToNumber(s) ==
    IF s = <<>> THEN Num(0)
    ELSE IF Head(s) = "-" THEN Negate(UnsignedToNumber(Tail(s)))
    ELSE IF Head(s) = "+" THEN UnsignedToNumber(Tail(s))
    ELSE UnsignedToNumber(s)

(***************************************************************************)
(* crypto.createHash("md5").update(s).digest("hex").toUpperCase(): Node's  *)
(* MD5 is library code; the digest is one block that stands for its 32     *)
(* uppercase hexadecimal characters and names the hashed content, so that  *)
(* equal contents, and only those, give equal digests.                     *)
(***************************************************************************)
Md5HexUpper(s) == <<"MD5(" \o Join(s) \o ")">>

\* The same digest before toUpperCase(): lowercase hexadecimal.
Md5HexLower(s) == <<"md5(" \o Join(s) \o ")">>

LKR == <<"L", "K", "R">>
USD == <<"U", "S", "D">>

\* An argument left out of a call, so that its default is taken.
Omitted == <<Undefined>>

ReturnValue(v) == [kind |-> "return", value |-> v]

MerchantCredentialsMissing == PayHereError(<<"Merchant credentials missing">>)

\* The test of line 38.
HashCredentialsMissing(mid, msec) == Falsy(mid) \/ Falsy(msec)

\* Lines 42-48 with the amount concatenated as given, not formatted.
PaymentHashRawAmount(order_id, amount, mid, msec, currency) ==
    Md5HexUpper(mid \o order_id \o amount \o currency \o Md5HexUpper(msec))

\* Lines 42-48: the hash of a checkout request.
PaymentHash(order_id, amount, mid, msec, currency) ==
    LET hashedSecret == Md5HexUpper(msec)
        formattedAmount == ToFixed2(ToNumber(amount))
        hashString == mid \o order_id \o formattedAmount \o currency \o hashedSecret
    IN  Md5HexUpper(hashString)

\* generatePaymentHash, lines 31-49.
generatePaymentHash(order_id, amount, mid, msec, currency_arg) ==
    LET currency == IF currency_arg = Omitted THEN LKR ELSE currency_arg
    IN  IF HashCredentialsMissing(mid, msec)
        THEN Throw(MerchantCredentialsMissing)
        ELSE ReturnValue(PaymentHash(order_id, amount, mid, msec, currency))

\* data.k as the code uses it in a concatenation or hands it to Number():
\* a missing key reads as undefined, which concatenates as "undefined" (and
\* is NaN as a number, like the text "undefined").
Field(data, k) ==
    IF In(k, data) THEN data[k] ELSE <<"u", "n", "d", "e", "f", "i", "n", "e", "d">>

required == {"order_id", "payhere_amount", "status_code", "md5sig", "payhere_currency"}

\* Line 65 with the list of required keys missing payhere_currency.
HasRequiredButCurrency(data) == \A k \in required \ {"payhere_currency"} : In(k, data)

\* Line 65: required.every((k) => k in data).
HasRequired(data) == \A k \in required : In(k, data)

\* Lines 67-74 with data.status_code left out of the concatenation, as in
\* generatePaymentHash.
GeneratedSignatureNoStatus(data, mid, msec) ==
    LET hashedSecret == Md5HexUpper(msec)
        formattedAmount == ToFixed2(ToNumber(Field(data, "payhere_amount")))
        hashString == mid \o Field(data, "order_id") \o formattedAmount
                          \o Field(data, "payhere_currency") \o hashedSecret
    IN  Md5HexUpper(hashString)

\* Lines 67-74: the signature the code generates for a payload.
GeneratedSignature(data, mid, msec) ==
    LET hashedSecret == Md5HexUpper(msec)
        formattedAmount == ToFixed2(ToNumber(Field(data, "payhere_amount")))
        hashString == mid \o Field(data, "order_id") \o formattedAmount
                          \o Field(data, "payhere_currency")
                          \o Field(data, "status_code") \o hashedSecret
    IN  Md5HexUpper(hashString)

\* verifyPaymentSignature, lines 62-77.
verifyPaymentSignature(data, mid, msec) ==
    IF ~HasRequired(data) THEN ReturnValue(FALSE)
    \* generated === data.md5sig, which is false for a missing md5sig
    ELSE ReturnValue(In("md5sig", data) /\ GeneratedSignature(data, mid, msec) = data.md5sig)

(***************************************************************************)
(* SpecHash: one call of generatePaymentHash or verifyPaymentSignature,    *)
(* as a free function or as the method that forwards the instance's        *)
(* merchant credentials, on arguments drawn from the sets below.           *)
(***************************************************************************)
OrderIdStrings == {<<"O", "1">>, <<"O", "1", "1">>}
AmountStrings ==
    { <<"1", "0">>, <<"1", "0", ".", "0", "0">>, <<"1", "0", ".", "0", "0", "1">>,
      <<"0", ".", "1", "2", "5">>, <<"a", "b", "c">> }
Currencies == {LKR, USD}

\* Amounts handed to generatePaymentHash: the above, and further spellings.
HashAmountStrings ==
    AmountStrings
    \cup { <<"1", "0", "0", "0">>, <<"1", "0", "0", "0", ".", "0", "0">>,
           <<"0", ".", "1", "3">>, <<"1", "0", ".", "0", "1">> }
StatusCodes == {<<"2">>, <<"-", "2">>}

\* Payloads that carry the four signed fields and no md5sig yet.
Unsigned ==
    { [order_id |-> o, payhere_amount |-> a, payhere_currency |-> cu, status_code |-> st] :
          o \in OrderIdStrings, a \in AmountStrings, cu \in Currencies, st \in StatusCodes }

\* The record d with key k set to v, and with key k removed.
With(d, k, v) == [x \in DOMAIN d \cup {k} |-> IF x = k THEN v ELSE d[x]]
Without(d, k) == [x \in DOMAIN d \ {k} |-> d[x]]

\* The signature the gateway computes for a notification, as documented:
\* MD5 over merchant_id, order_id, the amount with two decimals, the
\* currency, the status code and the uppercase MD5 of the merchant secret.
TwoDecimals(amount) == ToFixed2(ToNumber(amount))

GatewaySignature(d, mid, msec) ==
    Md5HexUpper(mid \o d.order_id \o TwoDecimals(d.payhere_amount)
                    \o d.payhere_currency \o d.status_code \o Md5HexUpper(msec))

\* A notification that lacks the signed field k, with the md5sig that the
\* same construction gives when the missing field is read as "undefined".
Lacking(d, k, mid, msec) ==
    With(Without(d, k), "md5sig",
         GatewaySignature(With(d, k, <<"u", "n", "d", "e", "f", "i", "n", "e", "d">>), mid, msec))

\* Values of md5sig a notification may carry: the gateway's signature of a
\* payload for the merchant <<"M","1">>, <<"S","1">> or for empty credentials,
\* that signature in lowercase, and text that is no signature.
Signatures ==
    { GatewaySignature(d, <<"M", "1">>, <<"S", "1">>) : d \in Unsigned }
    \cup { GatewaySignature(d, EmptyStr, EmptyStr) : d \in Unsigned }
    \cup { Md5HexLower(<<"M", "1">> \o <<"O", "1">> \o <<"1", "0", ".", "0", "0">> \o LKR
                       \o <<"2">> \o Md5HexUpper(<<"S", "1">>)),
           <<"A", "B", "C">> }

Signed == { With(d, "md5sig", sig) : d \in Unsigned, sig \in Signatures }

\* Notifications: complete ones, ones with a further field, and ones that
\* lack a required field.
Payloads ==
    Signed
    \cup { With(d, "custom_1", <<"x">>) : d \in Signed }
    \cup { Without(d, k) : d \in Signed, k \in required }
    \cup { Lacking(d, k, <<"M", "1">>, <<"S", "1">>) : d \in Unsigned, k \in required \ {"md5sig"} }
    \cup { [custom_1 |-> <<"x">>] }

PendingHashCalls ==
    { [fn |-> "generatePaymentHash", via |-> via, order_id |-> o, amount |-> a,
       currency |-> cu, merchant_id |-> mid, merchant_secret |-> msec, outcome |-> NoOutcome] :
          via \in {"free"}, o \in OrderIdStrings, a \in HashAmountStrings,
          cu \in Currencies \cup {Omitted}, mid \in MerchantIds, msec \in MerchantSecrets }

PendingVerifyCalls ==
    { [fn |-> "verifyPaymentSignature", via |-> "free", data |-> d,
       merchant_id |-> mid, merchant_secret |-> msec, outcome |-> NoOutcome] :
          d \in Payloads, mid \in MerchantIds, msec \in MerchantSecrets }

\* A call of a method takes the credentials from the instance.
PendingMethodCalls ==
    { [fn |-> "generatePaymentHash", via |-> "method", order_id |-> o, amount |-> a,
       currency |-> cu, outcome |-> NoOutcome] :
          o \in OrderIdStrings, a \in HashAmountStrings, cu \in Currencies \cup {Omitted} }
    \cup { [fn |-> "verifyPaymentSignature", via |-> "method", data |-> d,
            outcome |-> NoOutcome] : d \in Payloads }

\* A free function is called with no instance at hand (one constructed with
\* the defaults); a method is called on an instance with any credentials.
InitHash ==
    /\ \/ /\ last \in PendingHashCalls \cup PendingVerifyCalls
          /\ merchant_id = EmptyStr /\ merchant_secret = EmptyStr
       \/ /\ last \in PendingMethodCalls
          /\ merchant_id \in MerchantIds /\ merchant_secret \in MerchantSecrets
    /\ app_id = EmptyStr
    /\ app_secret = EmptyStr
    /\ authorizationCode = EmptyStr
    /\ accessToken = ""
    /\ accessTokenExpiresAt = Num(0)
    /\ now = 0
    /\ call = [c \in Callers |-> NoCall]

Pending(fn, via) == last.fn = fn /\ last.via = via /\ last.outcome = NoOutcome

\* generatePaymentHash(order_id, amount, merchant_id, merchant_secret, currency)
FreeGeneratePaymentHash ==
    /\ Pending("generatePaymentHash", "free")
    /\ last' = [last EXCEPT !.outcome =
           generatePaymentHash(last.order_id, last.amount, last.merchant_id,
                               last.merchant_secret, last.currency)]
    /\ UNCHANGED <<clientVars, now, call>>

\* verifyPaymentSignature(data, merchant_id, merchant_secret)
FreeVerifyPaymentSignature ==
    /\ Pending("verifyPaymentSignature", "free")
    /\ last' = [last EXCEPT !.outcome =
           verifyPaymentSignature(last.data, last.merchant_id, last.merchant_secret)]
    /\ UNCHANGED <<clientVars, now, call>>

\* PayHere.generatePaymentHash(order_id, amount, currency): lines 296-298.
MethodGeneratePaymentHash ==
    /\ Pending("generatePaymentHash", "method")
    /\ last' = [last EXCEPT !.outcome =
           generatePaymentHash(last.order_id, last.amount, merchant_id,
                               merchant_secret, last.currency)]
    /\ UNCHANGED <<clientVars, now, call>>

\* PayHere.verifyPaymentSignature(data): lines 303-305.
MethodVerifyPaymentSignature ==
    /\ Pending("verifyPaymentSignature", "method")
    /\ last' = [last EXCEPT !.outcome =
           verifyPaymentSignature(last.data, merchant_id, merchant_secret)]
    /\ UNCHANGED <<clientVars, now, call>>

NextHash ==
    \/ FreeGeneratePaymentHash
    \/ FreeVerifyPaymentSignature
    \/ MethodGeneratePaymentHash
    \/ MethodVerifyPaymentSignature

SpecHash == InitHash /\ [][NextHash]_vars

(***************************************************************************)
(* SpecFrame: one caller's calls on an instance constructed with all four  *)
(* credentials, and one call of generatePaymentHash or                     *)
(* verifyPaymentSignature made at any moment in between.                   *)
(***************************************************************************)
FrameOrderId == <<"O", "1">>
FrameAmount == <<"1", "0">>

\* A notification signed for the merchant <<"M","1">>, <<"S","1">>.
FramePayload ==
    LET d == [order_id |-> FrameOrderId, payhere_amount |-> FrameAmount,
              payhere_currency |-> LKR, status_code |-> <<"2">>]
    IN  With(d, "md5sig", GatewaySignature(d, <<"M", "1">>, <<"S", "1">>))

FramePureCalls ==
    { p \in PendingHashCalls \cup {q \in PendingMethodCalls : q.fn = "generatePaymentHash"} :
          p.order_id = FrameOrderId /\ p.amount = FrameAmount /\ p.currency = LKR }
    \cup { p \in PendingVerifyCalls \cup {q \in PendingMethodCalls : q.fn = "verifyPaymentSignature"} :
               p.data \in {FramePayload, Without(FramePayload, "md5sig")} }

InitFrame ==
    /\ merchant_id \in MerchantIds /\ merchant_secret \in MerchantSecrets
    /\ needMerchantCredentials(merchant_id, merchant_secret)
    /\ app_id \in AppIds /\ app_secret \in AppSecrets
    /\ needAppCredentials(app_id, app_secret)
    /\ authorizationCode = EmptyStr
    /\ accessToken = ""
    /\ accessTokenExpiresAt = Num(0)
    /\ now = 0
    /\ call = [c \in Callers |-> NoCall]
    /\ last \in FramePureCalls

NextFrame ==
    \/ \E c \in Sequential : CallGetAccessToken(c)
    \/ \E c \in Sequential, o \in OrderIds : CallGetPaymentDetails(c, o)
    \/ \E c \in Sequential, p \in PaymentIds, r \in Reasons, a \in ConcurrentAmounts :
           CallRefundPayment(c, p, r, a, "partial")
    \/ \E c \in Sequential, reply \in ConcurrentTokenReplies : TokenReply(c, reply)
    \/ \E c \in Sequential : Resume(c)
    \/ \E c \in Sequential, reply \in ConcurrentPaymentReplies : PaymentReply(c, reply)
    \/ Tick
    \/ FreeGeneratePaymentHash
    \/ FreeVerifyPaymentSignature
    \/ MethodGeneratePaymentHash
    \/ MethodVerifyPaymentSignature

SpecFrame == InitFrame /\ [][NextFrame]_vars

(***************************************************************************)
(* Properties of the client.                                               *)
(***************************************************************************)
\* Caller c starts a call of op in this step.
Starts(c, op) == CanCall(c) /\ call'[c] # call[c] /\ call'[c].op = op

\* The cache holds a non-empty token and now < expires_at (the state Valid);
\* its negation is the state Absent/Expired.
HoldsUnexpired ==
    /\ accessToken \notin {"", Undefined}
    /\ accessTokenExpiresAt.kind = "fin"
    /\ now * Pow10(accessTokenExpiresAt.k) < accessTokenExpiresAt.m

AppCredentialsSet == app_id # EmptyStr /\ app_secret # EmptyStr
MerchantCredentialsSet == merchant_id # EmptyStr /\ merchant_secret # EmptyStr

TokenRequestsOf(rec) == {i \in 1..Len(rec.sent) : rec.sent[i].endpoint = "oauth/token"}
PaymentRequestsOf(rec) == {i \in 1..Len(rec.sent) : rec.sent[i].endpoint # "oauth/token"}

\* A call of getAccessToken, with app credentials set, that starts from the
\* state s of the cache: served from the cache, or acquiring.
ServedFromCache(c) ==
    /\ call'[c].pc = "done"
    /\ call'[c].outcome = ReturnToken(accessToken)
    /\ call'[c].sent = <<>>

Acquires(c) ==
    /\ call'[c].pc = "awaitToken"
    /\ Cardinality(TokenRequestsOf(call'[c])) = 1
    /\ Len(call'[c].sent) = 1

\* C1: with app credentials set, a getAccessToken call made while the cache
\* holds a non-empty token and now < expires_at returns the cached value and
\* issues no token request; made when the cache is empty or now >= expires_at
\* it issues exactly one token request; and no getAccessToken call ever
\* issues a second one.  So of two successive calls before expiry only the
\* first acquires, and a call after expiry acquires once more.
C1_CachedUntilExpiry ==
    [][\A c \in Callers :
          /\ (Starts(c, "getAccessToken") /\ AppCredentialsSet)
                => IF HoldsUnexpired THEN ServedFromCache(c) ELSE Acquires(c)
          /\ call'[c].op = "getAccessToken" => Len(call'[c].sent) <= 1]_vars

\* C1 witness: a getAccessToken call that was served from the cache.
C1_Witness ==
    \E c \in Callers :
        /\ call[c].op = "getAccessToken" /\ call[c].pc = "done"
        /\ call[c].outcome.kind = "return" /\ call[c].sent = <<>>
        /\ call[c].outcome.token \in Tokens
        /\ HoldsUnexpired

IsPartialNonPositive(a) ==
    /\ a.refund_type = "partial"
    /\ \/ a.amount.kind = "fin" /\ a.amount.m <= 0
       \/ a.amount = NegInfinity

\* C2: a refundPayment call with refund_type "partial" and amount <= 0 issues
\* no request at all, neither for a token nor for the refund.
C2_NoRequestBeforeAmountCheck ==
    \A c \in Callers :
        (call[c].op = "refundPayment" /\ IsPartialNonPositive(call[c].args))
            => call[c].sent = <<>>

\* C3: in getPaymentDetails and refundPayment every non-success response
\* ends the call with a PayHereError, whatever its body.
C3_NonSuccessAlwaysFails ==
    [][\A c \in Callers, reply \in PaymentReplies :
          (PaymentReply(c, reply) /\ reply.fetch = "resolved" /\ ~reply.ok)
              => /\ call'[c].outcome.kind = "throw"
                 /\ call'[c].outcome.error.name = "PayHereError"]_vars

\* A reply to the token request that is no successful acquisition: fetch
\* rejected, a body that is not JSON, a non-success status, or a success
\* status with a body that is no object or lacks access_token or expires_in.
FailedAcquisition(reply) ==
    \/ reply.fetch = "rejected"
    \/ ~reply.parsed
    \/ ~reply.ok
    \/ ~IsObject(reply.data)
    \/ ~In("access_token", reply.data)
    \/ ~In("expires_in", reply.data)

\* C4: every failed token acquisition ends the call that made it with a
\* PayHereError, and returns nothing to the caller.
C4_FailedAcquisitionThrows ==
    [][\A c \in Callers, reply \in TokenReplies :
          (TokenReply(c, reply) /\ FailedAcquisition(reply))
              => /\ call'[c].pc = "done"
                 /\ call'[c].outcome.kind = "throw"
                 /\ call'[c].outcome.error.name = "PayHereError"]_vars

\* C5: a failed token acquisition that finds the cache Absent/Expired leaves
\* it Absent/Expired; and from an Absent/Expired cache a getAccessToken call
\* (with app credentials set) returns no cached value and issues a request.
C5_FailureLeavesCacheExpired ==
    [][\A c \in Callers :
          /\ (call[c].pc = "awaitToken" /\ ~HoldsUnexpired) =>
                \A reply \in TokenReplies :
                    (FailedAcquisition(reply) /\ TokenReply(c, reply))
                        => ~HoldsUnexpired'
          /\ (Starts(c, "getAccessToken") /\ AppCredentialsSet /\ ~HoldsUnexpired)
                => Acquires(c)]_vars

\* C5 witness: a getAccessToken call whose acquisition failed, and the cache
\* Absent/Expired after it.
C5_Witness ==
    \E c \in Callers :
        /\ call[c].op = "getAccessToken" /\ call[c].pc = "done"
        /\ Len(call[c].sent) = 1
        /\ call[c].outcome.kind = "throw"
        /\ ~HoldsUnexpired

IsCredentialsMissing(outcome) ==
    /\ outcome.kind = "throw"
    /\ outcome.error \in {AppCredentialsError, MerchantCredentialsError}

\* C6: a getAccessToken call with app_id or app_secret empty, and a
\* getPaymentDetails or refundPayment call with any of the four credentials
\* empty, ends at once with a PayHereError about the credentials and issues
\* no request, whatever the cache holds.
C6_CredentialsBeforeNetwork ==
    [][\A c \in Callers :
          /\ (Starts(c, "getAccessToken") /\ ~AppCredentialsSet)
                => /\ call'[c].pc = "done"
                   /\ call'[c].outcome = Throw(AppCredentialsError)
                   /\ call'[c].sent = <<>>
          /\ ((Starts(c, "getPaymentDetails") \/ Starts(c, "refundPayment"))
                  /\ ~(AppCredentialsSet /\ MerchantCredentialsSet))
                => /\ call'[c].pc = "done"
                   /\ IsCredentialsMissing(call'[c].outcome)
                   /\ call'[c].sent = <<>>]_vars

\* C6 witness: a call refused for its app credentials while the cache held an
\* unexpired token.
C6_Witness ==
    \E c \in Callers :
        /\ call[c].op \in {"getPaymentDetails", "refundPayment"}
        /\ call[c].outcome = Throw(AppCredentialsError)
        /\ MerchantCredentialsSet /\ ~AppCredentialsSet
        /\ HoldsUnexpired

IsPositive(x) == (x.kind = "fin" /\ x.m > 0) \/ x = Infinity

\* Text with exactly two fractional digits: digits, ".", two digits.
HasTwoFractionDigits(s) ==
    /\ Len(s) >= 4
    /\ s[Len(s) - 2] = "."
    /\ \A i \in 1..Len(s) : i # Len(s) - 2 => IsDigit(s[i])

\* C8: every refund request carries payment_id and reason; it carries an
\* amount exactly when refund_type is "partial" and amount > 0, and then the
\* amount with exactly two fractional digits.
C8_RefundBody ==
    \A c \in Callers : \A i \in PaymentRequestsOf(call[c]) :
        call[c].op = "refundPayment" =>
            LET body == call[c].sent[i].body
                a == call[c].args
            IN  /\ In("payment_id", body) /\ body.payment_id = a.payment_id
                /\ In("reason", body) /\ body.reason = a.reason
                /\ In("amount", body) <=> (a.refund_type = "partial" /\ IsPositive(a.amount))
                /\ In("amount", body) => HasTwoFractionDigits(body.amount)

(***************************************************************************)
(* Properties of the two pure functions.                                   *)
(***************************************************************************)
Returned == last.fn # "none" /\ last.outcome # NoOutcome

\* The merchant credentials a call works with: its arguments, or the
\* instance's fields for a method.
UsedMerchantId == IF last.via = "free" THEN last.merchant_id ELSE merchant_id
UsedMerchantSecret == IF last.via = "free" THEN last.merchant_secret ELSE merchant_secret

\* C7: generatePaymentHash and verifyPaymentSignature, free or as methods,
\* end in an error whenever merchant_id or merchant_secret is empty.
C7_HashAndVerifyFailFast ==
    (Returned /\ (UsedMerchantId = EmptyStr \/ UsedMerchantSecret = EmptyStr))
        => (last.outcome.kind = "throw" /\ last.outcome.error.name = "PayHereError")

Verified == Returned /\ last.fn = "verifyPaymentSignature"

Complete(d) == required \subseteq DOMAIN d

\* A verification of a notification with every required field, for non-empty
\* merchant credentials.
VerifiedComplete ==
    /\ Verified /\ Complete(last.data)
    /\ UsedMerchantId # EmptyStr /\ UsedMerchantSecret # EmptyStr

\* The notifications that differ from d in the one field k, over the values
\* of the model.
Variants(d, k) ==
    LET values == CASE k = "order_id" -> OrderIdStrings
                    [] k = "payhere_amount" -> AmountStrings
                    [] k = "payhere_currency" -> Currencies
                    [] k = "status_code" -> StatusCodes
                    [] k = "md5sig" -> Signatures
    IN  { With(d, k, v) : v \in values \ {d[k]} }

Verifies(d) == verifyPaymentSignature(d, UsedMerchantId, UsedMerchantSecret).value

\* Verification is true exactly for the documented signature.
VerifiesExactlyTheSignature ==
    VerifiedComplete =>
        (last.outcome.value
            <=> last.data.md5sig
                    = GatewaySignature(last.data, UsedMerchantId, UsedMerchantSecret))

\* C9 as stated: for non-empty merchant credentials, verification is true
\* exactly for the documented signature, and once a notification verifies, changing md5sig or any one of order_id,
\* amount, currency and status_code makes verification false.
C9_AnyFieldChangeFails ==
    /\ VerifiesExactlyTheSignature
    /\ (VerifiedComplete /\ last.outcome.value) =>
          \A k \in required : \A q \in Variants(last.data, k) : ~Verifies(q)

\* C9 amended: as above, but a change of the amount makes verification false
\* only when it changes the amount's two-decimal form; another spelling of
\* the same two-decimal amount still verifies.
C9_SignedFieldChangeFails ==
    /\ VerifiesExactlyTheSignature
    /\ (VerifiedComplete /\ last.outcome.value) =>
          \A k \in required : \A q \in Variants(last.data, k) :
              IF k = "payhere_amount"
                 /\ TwoDecimals(q.payhere_amount) = TwoDecimals(last.data.payhere_amount)
              THEN Verifies(q)
              ELSE ~Verifies(q)

\* C9 witness: a notification with every field that verified, for non-empty
\* credentials.
C9_Witness == VerifiedComplete /\ last.outcome.value

\* C10: verifyPaymentSignature returns false, with no error, whenever one of
\* the five required fields is absent from the payload.
C10_MissingFieldIsFalse ==
    (Verified /\ ~Complete(last.data)) => last.outcome = ReturnValue(FALSE)

\* C10 witness: a notification lacking one signed field whose md5sig is what
\* the construction gives over the remaining fields, returned as false.
C10_Witness ==
    /\ Verified /\ In("md5sig", last.data) /\ ~Complete(last.data)
    /\ last.data.md5sig = GeneratedSignature(last.data, UsedMerchantId, UsedMerchantSecret)
    /\ last.outcome = ReturnValue(FALSE)

Hashed == Returned /\ last.fn = "generatePaymentHash"

\* The number of hundredths nearest to the decimal m / 10^k >= 0, the larger
\* one when two are equally near.
HalfUp(x) ==
    LET q == Pow10(x.k)
        lo == (100 * x.m) \div q
    IN  IF 2 * (100 * x.m - lo * q) < q THEN lo ELSE lo + 1

\* Two amounts that denote the same value once rounded to two fractional
\* digits.
SameRoundedValue(a1, a2) ==
    LET x == ToNumber(a1)
        y == ToNumber(a2)
    IN  /\ x.kind = "fin" /\ x.m >= 0
        /\ y.kind = "fin" /\ y.m >= 0
        /\ HalfUp(x) = HalfUp(y)

\* The hash as documented: uppercase MD5 over merchant_id, order_id, the
\* amount with two decimals, the currency and the uppercase MD5 of the secret.
DocumentedHash(order_id, amount, mid, msec, currency) ==
    Md5HexUpper(mid \o order_id \o TwoDecimals(amount) \o currency \o Md5HexUpper(msec))

TokenReturnedTo(c) == call[c].pc # "haveToken" /\ call'[c].pc = "haveToken"

\* The call of c issues its payment request in this step.
IssuesPaymentRequest(c) ==
    /\ call'[c].pc = "awaitPayment" /\ call[c].pc # "awaitPayment"
    /\ Len(call'[c].sent) = Len(call[c].sent) + 1

\* The Bearer value of a payment request.
BearerOf(request) == request.authorization[2]

\* C12: what getAccessToken returns to a getPaymentDetails or refundPayment
\* call is a non-empty token of the gateway, the one the cache holds, with
\* now < expires_at at that moment; and a payment request is issued only by
\* a call to which getAccessToken has returned, carrying that value.
C12_RequestsCarryValidToken ==
    [][\A c \in Callers :
          /\ TokenReturnedTo(c)
                => /\ call'[c].token \in Tokens
                   /\ accessToken' = call'[c].token
                   /\ HoldsUnexpired'
          /\ IssuesPaymentRequest(c)
                => /\ call[c].pc = "haveToken"
                   /\ BearerOf(call'[c].sent[Len(call'[c].sent)]) = call[c].token
                   /\ call[c].token \in Tokens]_vars

\* The token request of c is outstanding.
AcquisitionOutstanding(c) ==
    /\ call[c].pc = "awaitToken"
    /\ call[c].sent[Len(call[c].sent)].endpoint = "oauth/token"

\* C13: nothing excludes a second acquisition.  Every call of getAccessToken,
\* getPaymentDetails or refundPayment that starts while the cache is
\* Absent/Expired issues its own token request, also while the token request
\* of another caller on the same instance is still outstanding.
C13_NoMutualExclusion ==
    [][\A c \in Callers :
          (CanCall(c) /\ call'[c] # call[c] /\ ~HoldsUnexpired
              /\ AppCredentialsSet /\ MerchantCredentialsSet)
              => Acquires(c)]_vars

\* C13 witness: two acquisition requests of the one instance outstanding at
\* once.
C13_Witness ==
    /\ \A c \in Callers : AcquisitionOutstanding(c)
    /\ ~HoldsUnexpired

\* The call c starts in this step and getAccessToken answers it from the
\* cache, issuing no request.
AnsweredFromCache(c) ==
    /\ CanCall(c) /\ call'[c] # call[c]
    /\ call'[c].sent = <<>>
    /\ \/ call'[c].pc = "haveToken"
       \/ call'[c].pc = "done" /\ call'[c].outcome.kind = "return"

\* The value getAccessToken handed out in this step.
Handed(c) ==
    IF call'[c].pc = "haveToken" THEN call'[c].token ELSE call'[c].outcome.token

CacheChanges ==
    accessToken' # accessToken \/ accessTokenExpiresAt' # accessTokenExpiresAt

\* C14: a value answered from the cache is the cached token, non-empty, with
\* now < expires_at; a call that starts with now >= expires_at is not
\* answered from the cache but acquires; the cache changes only when a token
\* request is answered; and an unexpired token it then holds has expires_at
\* equal to the time of that answer plus its expires_in seconds.
C14_ServedTokenUnexpired ==
    [][\A c \in Callers :
          /\ AnsweredFromCache(c)
                => /\ Handed(c) = accessToken
                   /\ accessToken \in Tokens
                   /\ HoldsUnexpired
          /\ (CanCall(c) /\ call'[c] # call[c] /\ ~HoldsUnexpired)
                => ~AnsweredFromCache(c)
          /\ CacheChanges
                => \E c2 \in Callers :
                       call[c2].pc = "awaitToken" /\ call'[c2].pc # "awaitToken"
          /\ (CacheChanges /\ HoldsUnexpired')
                => /\ accessToken' \in Tokens
                   /\ \E n \in 0..MaxExpiresIn :
                          accessTokenExpiresAt' = Num(now + 1000 * n)]_vars

\* C14 witness: a getPaymentDetails or refundPayment call answered from the
\* cache one tick after the token was acquired, at time 0 for one second.
C14_Witness ==
    \E c \in Callers :
        /\ call[c].pc = "haveToken" /\ call[c].sent = <<>>
        /\ call[c].token = accessToken
        /\ HoldsUnexpired
        /\ now = TickMs /\ accessTokenExpiresAt = Num(1000)

\* No call has issued more than one token request or more than one payment
\* request, and a getAccessToken call has issued no payment request.
AtMostOneRequestEach ==
    \A c \in Callers :
        /\ Cardinality(TokenRequestsOf(call[c])) <= 1
        /\ Cardinality(PaymentRequestsOf(call[c])) <= 1
        /\ call[c].op = "getAccessToken" => PaymentRequestsOf(call[c]) = {}

\* A reply that is a failure: fetch rejected (network error, timeout), or a
\* response with a non-success status.
IsFailure(reply) == reply.fetch = "rejected" \/ ~reply.ok

\* The call of c ends in this step with an error, having issued nothing more.
EndsWithError(c) ==
    /\ call'[c].pc = "done"
    /\ call'[c].outcome.kind = "throw"
    /\ call'[c].sent = call[c].sent

\* C15: a call issues at most one token request and at most one payment
\* request, and a failed reply to either request ends the call with an error
\* and with no further request.
C15_NoRetry ==
    [][/\ AtMostOneRequestEach'
       /\ \A c \in Callers :
             /\ \A reply \in TokenReplies :
                   (TokenReply(c, reply) /\ IsFailure(reply)) => EndsWithError(c)
             /\ \A reply \in PaymentReplies :
                   (PaymentReply(c, reply) /\ IsFailure(reply)) => EndsWithError(c)]_vars

\* A response with a non-success status whose body has one of the two
\* documented failure shapes.
IsShapedFailure(reply) ==
    /\ reply.fetch = "resolved" /\ reply.parsed /\ ~reply.ok
    /\ reply.data \in {GatewayError, OAuthError}

\* The message of a failure body: msg of the shape with a status key,
\* error_description of the shape with an error key.
BodyMessage(data) == IF In("status", data) THEN data.msg ELSE data.error_description

Contains(message, piece) == \E i \in 1..Len(message) : message[i] = piece

\* The call of c ends in this step with a PayHereError that carries piece.
FailsCarrying(c, piece) ==
    /\ call'[c].pc = "done"
    /\ call'[c].outcome.kind = "throw"
    /\ call'[c].outcome.error.name = "PayHereError"
    /\ Contains(call'[c].outcome.error.message, piece)

\* The payment endpoints: msg for a body with a status key, error_description
\* for a body with an error key.
PaymentFailureCarriesMessage ==
    \A c \in Callers :
        call[c].pc = "awaitPayment" =>
            \A reply \in PaymentReplies :
                (IsShapedFailure(reply) /\ PaymentReply(c, reply))
                    => FailsCarrying(c, BodyMessage(reply.data))

\* C16 as stated: at the payment endpoints and at the token endpoint alike, a
\* non-success response of either documented shape ends the call with a
\* PayHereError whose message contains the message of the body.
C16_BothShapesCarryMessage ==
    [][/\ PaymentFailureCarriesMessage
       /\ \A c \in Callers :
             call[c].pc = "awaitToken" =>
                 \A reply \in TokenReplies :
                     (IsShapedFailure(reply) /\ TokenReply(c, reply))
                         => FailsCarrying(c, BodyMessage(reply.data))]_vars

\* C16 amended: as above at the payment endpoints; at the token endpoint only
\* error_description is read, so a body with an error key is reported with
\* its error_description, and a body with a status key ends the call with a
\* PayHereError that carries the fixed prefix and nothing of the body.
C16_ShapesCarryReadMessage ==
    [][/\ PaymentFailureCarriesMessage
       /\ \A c \in Callers :
             call[c].pc = "awaitToken" =>
                 \A reply \in TokenReplies :
                     (IsShapedFailure(reply) /\ TokenReply(c, reply))
                         => IF In("error", reply.data)
                            THEN FailsCarrying(c, reply.data.error_description)
                            ELSE /\ FailsCarrying(c, "Failed to fetch access token: ")
                                 /\ Len(call'[c].outcome.error.message) = 1]_vars

\* C16 witness: a getPaymentDetails or refundPayment call that failed with
\* the msg of a gateway error body.
C16_Witness ==
    \E c \in Callers :
        /\ call[c].op \in {"getPaymentDetails", "refundPayment"}
        /\ call[c].pc = "done" /\ call[c].outcome.kind = "throw"
        /\ Len(call[c].sent) = 2
        /\ Contains(call[c].outcome.error.message, GatewayError.msg)

\* A reply that fails in transport or in parsing: fetch rejected (network
\* error, timeout) or a body that is not JSON; and the error it raises.
IsTransportFailure(reply) == reply.fetch = "rejected" \/ ~reply.parsed

Cause(reply) == IF reply.fetch = "rejected" THEN reply.error ELSE JsonError

\* The outcome of a call that re-wraps the error e behind the text prefix.
Rewrapped(prefix, e) == Throw(PayHereError(<<prefix>> \o e.message))

\* C17: no call of getAccessToken, getPaymentDetails or refundPayment ends
\* with an error other than a PayHereError; a transport error, a timeout or a
\* JSON-parse failure of the token request or of the payment request ends the
\* call with a PayHereError whose message is the operation's text followed by
\* the cause's message.
C17_OnlyPayHereError ==
    [][\A c \in Callers :
          /\ call'[c].outcome.kind = "throw"
                => call'[c].outcome.error.name = "PayHereError"
          /\ call[c].pc = "awaitToken" =>
                \A reply \in TokenReplies :
                    (IsTransportFailure(reply) /\ TokenReply(c, reply))
                        => /\ call'[c].pc = "done"
                           /\ call'[c].outcome =
                                 Rewrapped("Failed to fetch access token: ", Cause(reply))
          /\ call[c].pc = "awaitPayment" =>
                \A reply \in PaymentReplies :
                    (IsTransportFailure(reply) /\ PaymentReply(c, reply))
                        => /\ call'[c].pc = "done"
                           /\ call'[c].outcome.kind = "throw"
                           /\ call'[c].outcome.error.name = "PayHereError"
                           /\ Len(call'[c].outcome.error.message) = 2
                           /\ call'[c].outcome.error.message[2] = Cause(reply).message[1]]_vars

\* C17 witness: a refundPayment call whose refund request timed out, ended
\* with a PayHereError that carries the timeout's message.
C17_Witness ==
    \E c \in Callers :
        /\ call[c].op = "refundPayment" /\ call[c].pc = "done"
        /\ Len(call[c].sent) = 2
        /\ call[c].outcome.kind = "throw"
        /\ call[c].outcome.error.name = "PayHereError"
        /\ Contains(call[c].outcome.error.message, Timeout.message[1])

\* The pair a response with a success status leaves in the cache when it is
\* answered at the present time.
PairOf(data) ==
    <<GetStr(data, "access_token"),
      IF In("expires_in", data) THEN Num(now + 1000 * data.expires_in) ELSE NaN>>

\* C18: in every step that changes the cached token or the expiry, a token
\* request is answered and both fields take the values of that one response;
\* so, under every interleaving of the calls of two callers, the cache never
\* holds the token of one response beside the expiry of another.
C18_ConsistentPair ==
    [][CacheChanges =>
          \E c \in Callers :
              /\ call[c].pc = "awaitToken" /\ call'[c].pc # "awaitToken"
              /\ \E data \in TokenBodies :
                     <<accessToken', accessTokenExpiresAt'>> = PairOf(data)]_vars

\* C18 witness: the token request of one caller has been answered and its
\* pair is in the cache, unexpired, while the token request that the other
\* caller issued before that answer is still outstanding.
C18_Witness ==
    \E c, d \in Callers :
        /\ c # d
        /\ call[c].pc = "done" /\ Len(call[c].sent) = 1
        /\ call[c].outcome = ReturnToken(accessToken)
        /\ HoldsUnexpired
        /\ AcquisitionOutstanding(d)

\* A step of the payment request phase of the call of c: the await of
\* getAccessToken() resumes, or the payment request is answered.
PaymentPhaseStep(c) ==
    call[c].pc \in {"haveToken", "awaitPayment"} /\ call'[c] # call[c]

\* A step of generatePaymentHash or verifyPaymentSignature.
PureStep == last' # last

\* The payment request phase leaves the cached token and its expiry as they
\* are, and the two pure functions leave every field of the client as it is.
PaymentAndPureLeaveCache ==
    /\ \A c \in Callers :
          PaymentPhaseStep(c) => UNCHANGED <<accessToken, accessTokenExpiresAt>>
    /\ PureStep => UNCHANGED clientVars

\* A token request is answered in this step with a successful acquisition:
\* a success status and a body with access_token and expires_in.
SuccessfulAcquisitionStep ==
    \E c \in Callers :
        /\ call[c].pc = "awaitToken"
        /\ \E reply \in TokenReplies :
               /\ ~FailedAcquisition(reply)
               /\ TokenReply(c, reply)

\* C19: the cached token and its expiry change only in a step that answers a
\* token request with a successful acquisition; no step of the payment
\* request phase changes them, whatever the reply; and no call of
\* generatePaymentHash or verifyPaymentSignature changes a field of the
\* client.
C19_CacheWrittenOnlyByAcquisition ==
    [][/\ CacheChanges => SuccessfulAcquisitionStep
       /\ PaymentAndPureLeaveCache]_vars

\* The part of C19 about the payment request phase and the pure functions.
PaymentAndPureFrame == [][PaymentAndPureLeaveCache]_vars

====
